---- MODULE Spec2Model ----
(***************************************************************************)
(* Model of log-analyze.py: the script reads app.log, finds the maximal    *)
(* runs of lines that do not start with date_prefix, and writes each run   *)
(* with its context of date lines to excerpts.log and excerpts.jsonl.      *)
(*                                                                         *)
(* A str is a sequence of one-character strings.  Positions are Python's   *)
(* 0-based positions; PyAt turns them into TLA+ sequence positions.        *)
(* Optional[T] is None == <<>> or Some(v) == <<v>>.                        *)
(***************************************************************************)
EXTENDS Integers, Sequences, FiniteSets, TLC

\* ---------------------------------------------------------------- bounds
MaxLines == 4
MaxCtx == 2
MaxRuns == 2

\* ------------------------------------------------------- Python helpers
None == <<>>
Some(v) == <<v>>

\* list[i] of Python: valid for -len <= i < len, negative i counts from the end
PyIndexOk(lines, i) == i >= 0 - Len(lines) /\ i < Len(lines)
PyAt(lines, i) == IF i >= 0 THEN lines[i + 1] ELSE lines[Len(lines) + i + 1]

\* range(a, b + 1) as a list
RECURSIVE PyRange(_, _)
PyRange(a, b) == IF a > b THEN <<>> ELSE <<a>> \o PyRange(a + 1, b)

RECURSIVE Reverse(_)
Reverse(q) == IF q = <<>> THEN <<>> ELSE Append(Reverse(Tail(q)), Head(q))

\* list.sort() on a list of int: insertion of each element in ascending order
RECURSIVE InsertSorted(_, _)
InsertSorted(x, q) ==
    IF q = <<>> THEN <<x>>
    ELSE IF x <= Head(q) THEN <<x>> \o q
    ELSE <<Head(q)>> \o InsertSorted(x, Tail(q))

RECURSIVE PySort(_)
PySort(q) == IF q = <<>> THEN <<>> ELSE InsertSorted(Head(q), PySort(Tail(q)))

\* str.rstrip("\n"): drop every trailing newline
RECURSIVE rstrip_nl(_)
rstrip_nl(str) ==
    IF str # <<>> /\ str[Len(str)] = "\n"
    THEN rstrip_nl(SubSeq(str, 1, Len(str) - 1))
    ELSE str

IsDigit(c) == c \in {"0", "1", "2", "3", "4", "5", "6", "7", "8", "9"}
IsSpace(c) == c \in {" ", "\t", "\n", "\r", "\f"}

RECURSIVE lstrip(_)
lstrip(str) == IF str # <<>> /\ IsSpace(Head(str)) THEN lstrip(Tail(str)) ELSE str

RECURSIVE rstrip(_)
rstrip(str) ==
    IF str # <<>> /\ IsSpace(str[Len(str)])
    THEN rstrip(SubSeq(str, 1, Len(str) - 1))
    ELSE str

\* str.strip()
strip(str) == rstrip(lstrip(str))

\* str.find(":"): 0-based position of the first occurrence of ch, or -1
RECURSIVE FindFrom(_, _, _)
FindFrom(str, ch, k) ==
    IF k > Len(str) THEN 0 - 1
    ELSE IF str[k] = ch THEN k - 1
    ELSE FindFrom(str, ch, k + 1)

find(str, ch) == FindFrom(str, ch, 1)

\* bool(x) of an Optional[str]: None and "" are false
Truthy(o) == o # None /\ o[1] # <<>>

\* ------------------------------------------------------------- TS_RE
DigitsAt(str, from, n) ==
    /\ from + n - 1 <= Len(str)
    /\ \A k \in from..(from + n - 1) : IsDigit(str[k])

CharAt(str, k, ch) == k <= Len(str) /\ str[k] = ch

\* number of consecutive whitespace characters from position k on (\s+ is greedy)
RECURSIVE SpaceRun(_, _)
SpaceRun(str, k) ==
    IF k <= Len(str) /\ IsSpace(str[k]) THEN 1 + SpaceRun(str, k + 1) ELSE 0

\* ^(\d{4}-\d{2}-\d{2}\s+\d{2}:\d{2}:\d{2}): length of the match, 0 if none
TS_RE(str) ==
    LET w == SpaceRun(str, 11)
        t == 11 + w
    IN  IF /\ DigitsAt(str, 1, 4) /\ CharAt(str, 5, "-")
           /\ DigitsAt(str, 6, 2) /\ CharAt(str, 8, "-")
           /\ DigitsAt(str, 9, 2)
           /\ w >= 1
           /\ DigitsAt(str, t, 2) /\ CharAt(str, t + 2, ":")
           /\ DigitsAt(str, t + 3, 2) /\ CharAt(str, t + 5, ":")
           /\ DigitsAt(str, t + 6, 2)
        THEN t + 7
        ELSE 0

\* ------------------------------------------------------ tool functions
is_date_line(line, prefix) ==
    /\ Len(prefix) <= Len(line)
    /\ SubSeq(line, 1, Len(prefix)) = prefix

extract_timestamp(line) ==
    LET m == TS_RE(line)
    IN  IF m > 0 THEN Some(SubSeq(line, 1, m)) ELSE None

\* variant of GroupLoop: positions within 2 of the interval's end extend it
RECURSIVE GroupLoopWithin2(_, _, _, _, _)
GroupLoopWithin2(indices, k, s, e, ranges) ==
    IF k > Len(indices) THEN Append(ranges, <<s, e>>)
    ELSE IF indices[k] <= e + 2
         THEN GroupLoopWithin2(indices, k + 1, s, indices[k], ranges)
         ELSE GroupLoopWithin2(indices, k + 1, indices[k], indices[k], Append(ranges, <<s, e>>))

\* variant of GroupLoop: the test is i == e, so no interval is ever extended
RECURSIVE GroupLoopNoMerge(_, _, _, _, _)
GroupLoopNoMerge(indices, k, s, e, ranges) ==
    IF k > Len(indices) THEN Append(ranges, <<s, e>>)
    ELSE IF indices[k] = e
         THEN GroupLoopNoMerge(indices, k + 1, s, indices[k], ranges)
         ELSE GroupLoopNoMerge(indices, k + 1, indices[k], indices[k], Append(ranges, <<s, e>>))

\* the for loop of group_contiguous over indices[k..], with the open interval [s, e]
RECURSIVE GroupLoop(_, _, _, _, _)
GroupLoop(indices, k, s, e, ranges) ==
    IF k > Len(indices) THEN Append(ranges, <<s, e>>)
    ELSE IF indices[k] = e + 1
         THEN GroupLoop(indices, k + 1, s, indices[k], ranges)
         ELSE GroupLoop(indices, k + 1, indices[k], indices[k], Append(ranges, <<s, e>>))

group_contiguous(indices) ==
    IF indices = <<>> THEN <<>>
    ELSE LET sorted == PySort(indices)
         IN  GroupLoop(sorted, 2, sorted[1], sorted[1], <<>>)

\* variant of BeforeLoop: the walk ends at the first line that is not a date line
RECURSIVE BeforeLoopStop(_, _, _, _, _)
BeforeLoopStop(lines, i, prefix, n_before, acc) ==
    IF i >= 0 /\ Len(acc) < n_before /\ is_date_line(PyAt(lines, i), prefix)
    THEN BeforeLoopStop(lines, i - 1, prefix, n_before, Append(acc, i))
    ELSE acc

\* the backward while loop of collect_context_indices
RECURSIVE BeforeLoop(_, _, _, _, _)
BeforeLoop(lines, i, prefix, n_before, acc) ==
    IF i >= 0 /\ Len(acc) < n_before
    THEN BeforeLoop(lines, i - 1, prefix, n_before,
                    IF is_date_line(PyAt(lines, i), prefix) THEN Append(acc, i) ELSE acc)
    ELSE acc

\* variant of AfterLoop: the bound is tested with <=
RECURSIVE AfterLoopOffByOne(_, _, _, _, _)
AfterLoopOffByOne(lines, j, prefix, n_after, acc) ==
    IF j < Len(lines) /\ Len(acc) <= n_after
    THEN AfterLoopOffByOne(lines, j + 1, prefix, n_after,
                           IF is_date_line(PyAt(lines, j), prefix) THEN Append(acc, j) ELSE acc)
    ELSE acc

\* the forward while loop of collect_context_indices
RECURSIVE AfterLoop(_, _, _, _, _)
AfterLoop(lines, j, prefix, n_after, acc) ==
    IF j < Len(lines) /\ Len(acc) < n_after
    THEN AfterLoop(lines, j + 1, prefix, n_after,
                   IF is_date_line(PyAt(lines, j), prefix) THEN Append(acc, j) ELSE acc)
    ELSE acc

\* returns <<before_idx, after_idx>>
collect_context_indices(lines, start, end, prefix, n_before, n_after) ==
    << Reverse(BeforeLoop(lines, start - 1, prefix, n_before, <<>>)),
       AfterLoop(lines, end + 1, prefix, n_after, <<>>) >>

RECURSIVE PrevLoop(_, _, _)
PrevLoop(lines, i, prefix) ==
    IF i >= 0
    THEN IF is_date_line(PyAt(lines, i), prefix) THEN Some(i)
         ELSE PrevLoop(lines, i - 1, prefix)
    ELSE None

\* variant of nearest_prev_date_line: the search starts at idx - 2
nearest_prev_skip_one(lines, idx, prefix) == PrevLoop(lines, idx - 2, prefix)

nearest_prev_date_line(lines, idx, prefix) == PrevLoop(lines, idx - 1, prefix)

RECURSIVE NextLoop(_, _, _)
NextLoop(lines, j, prefix) ==
    IF j < Len(lines)
    THEN IF is_date_line(PyAt(lines, j), prefix) THEN Some(j)
         ELSE NextLoop(lines, j + 1, prefix)
    ELSE None

nearest_next_date_line(lines, idx, prefix) == NextLoop(lines, idx + 1, prefix)

\* variant of first_non_date_in_range: range(start, end), the end left out
RECURSIVE first_non_date_excl_end(_, _, _, _)
first_non_date_excl_end(lines, start, end, prefix) ==
    IF start >= end THEN None
    ELSE IF ~is_date_line(PyAt(lines, start), prefix) THEN Some(start)
    ELSE first_non_date_excl_end(lines, start + 1, end, prefix)

RECURSIVE first_non_date_in_range(_, _, _, _)
first_non_date_in_range(lines, start, end, prefix) ==
    IF start > end THEN None
    ELSE IF ~is_date_line(PyAt(lines, start), prefix) THEN Some(start)
    ELSE first_non_date_in_range(lines, start + 1, end, prefix)

\* variant of non_date_lines_in_range: range(start, end), the end left out
RECURSIVE non_date_lines_excl_end(_, _, _, _)
non_date_lines_excl_end(lines, start, end, prefix) ==
    IF start >= end THEN <<>>
    ELSE (IF ~is_date_line(PyAt(lines, start), prefix)
          THEN <<rstrip_nl(PyAt(lines, start))>> ELSE <<>>)
         \o non_date_lines_excl_end(lines, start + 1, end, prefix)

RECURSIVE non_date_lines_in_range(_, _, _, _)
non_date_lines_in_range(lines, start, end, prefix) ==
    IF start > end THEN <<>>
    ELSE (IF ~is_date_line(PyAt(lines, start), prefix)
          THEN <<rstrip_nl(PyAt(lines, start))>> ELSE <<>>)
         \o non_date_lines_in_range(lines, start + 1, end, prefix)

prefix_before_colon(str) ==
    LET pos == find(str, ":")
    IN  IF pos = 0 - 1 THEN None ELSE Some(strip(SubSeq(str, 1, pos)))

\* [i for i, line in enumerate(all_lines) if not is_date_line(line, date_prefix)]
RECURSIVE NonDateFrom(_, _, _)
NonDateFrom(lines, i, prefix) ==
    IF i >= Len(lines) THEN <<>>
    ELSE (IF ~is_date_line(PyAt(lines, i), prefix) THEN <<i>> ELSE <<>>)
         \o NonDateFrom(lines, i + 1, prefix)

NonDateIndices(lines, prefix) == NonDateFrom(lines, 0, prefix)

\* [all_lines[i].rstrip("\n") for i in idxs]
StrippedLines(lines, idxs) == [k \in 1..Len(idxs) |-> rstrip_nl(PyAt(lines, idxs[k]))]

\* ------------------------------------------------------------ inputs
\* the configured date_prefix, "2025-09-05"
DatePrefix == <<"2", "0", "2", "5", "-", "0", "9", "-", "0", "5">>

\* another prefix a configuration may name, "ERROR"
ErrorPrefix == <<"E", "R", "R", "O", "R">>

Prefixes == {DatePrefix, ErrorPrefix}

\* "2025-09-05 04:00:01 ok\n": a date line with a timestamp
LineStamped == <<"2", "0", "2", "5", "-", "0", "9", "-", "0", "5", " ", "0", "4", ":", "0", "0", ":", "0", "1", " ", "o", "k", "\n">>

\* "2025-09-05\n": starts with the date, no time of day follows
LineDateOnly == <<"2", "0", "2", "5", "-", "0", "9", "-", "0", "5", "\n">>

\* "ERROR : boom\n": a line with a colon
LineError == <<"E", "R", "R", "O", "R", " ", ":", " ", "b", "o", "o", "m", "\n">>

\* "\n": a blank line
LineBlank == <<"\n">>

LinePool == {LineStamped, LineDateOnly, LineError, LineBlank}

\* every content of app.log of at most MaxLines lines
Files == UNION {[1..n -> LinePool] : n \in 0..MaxLines}

\* str(n) of a non-negative int
RECURSIVE IntToStr(_)
IntToStr(n) ==
    LET d == <<"0", "1", "2", "3", "4", "5", "6", "7", "8", "9">>
    IN  IF n < 10 THEN <<d[n + 1]>> ELSE IntToStr(n \div 10) \o <<d[(n % 10) + 1]>>

\* f"----- SEGMENT {seg_no} START -----\n"
StartMarker(n) ==
    <<"-", "-", "-", "-", "-", " ", "S", "E", "G", "M", "E", "N", "T", " ">> \o IntToStr(n)
    \o <<" ", "S", "T", "A", "R", "T", " ", "-", "-", "-", "-", "-", "\n">>

\* f"----- SEGMENT {seg_no} END -----\n"
EndMarker(n) ==
    <<"-", "-", "-", "-", "-", " ", "S", "E", "G", "M", "E", "N", "T", " ">> \o IntToStr(n)
    \o <<" ", "E", "N", "D", " ", "-", "-", "-", "-", "-", "\n">>

\* [all_lines[idx] for idx in idxs], the lines written verbatim
RawLines(lines, idxs) == [k \in 1..Len(idxs) |-> PyAt(lines, idxs[k])]

\* variant of WriteSegment: the markers are written whatever the option says
WriteSegmentMarked(divider, n, lines, idxs) ==
    <<StartMarker(n)>> \o RawLines(lines, idxs) \o <<EndMarker(n)>>

\* what one iteration appends to excerpts.log
WriteSegment(divider, n, lines, idxs) ==
    IF divider
    THEN <<StartMarker(n)>> \o RawLines(lines, idxs) \o <<EndMarker(n)>>
    ELSE RawLines(lines, idxs)

\* variant of Enumerate: enumerate(q), numbering from 0
EnumerateDefault(q, start) == [k \in 1..Len(q) |-> <<k - 1, q[k]>>]

\* enumerate(q, start) as the list of its pairs <<number, item>>
Enumerate(q, start) == [k \in 1..Len(q) |-> <<start + k - 1, q[k]>>]

\* variant of OpenForWrite: open(path, "a"), the old content is kept
OpenForAppend(old) == old

\* open(path, "w"): the file is truncated
OpenForWrite(old) == <<>>

\* ------------------------------------------------------------- state
VARIABLES
    input_file,        \* content of app.log, a list of lines
    output_file,       \* content of excerpts.log, a list of written strings
    jsonl_file,        \* content of excerpts.jsonl, one object per line
    date_prefix, ctx_before, ctx_after, add_divider,
    all_lines, non_date_indices, blocks,
    segments_info, segments_indices,
    it,                \* number of items the for loop has taken from enumerate
    seg_no, s, e, before_idx, after_idx, prev_idx, next_idx,
    occur_source_idx, first_exc_idx,
    printed,           \* the numbers of the final print, None before it
    pc,                \* "start", "classified", "loop", "done" or "error"
    run,               \* number of the current execution of the script
    last_segments,     \* segments_info at the end of the previous execution
    last_jsonl         \* excerpts.jsonl at the end of the previous execution

files == <<input_file, output_file, jsonl_file>>
params == <<date_prefix, ctx_before, ctx_after, add_divider>>
globals == <<all_lines, non_date_indices, blocks, segments_info, segments_indices>>
locals == <<it, seg_no, s, e, before_idx, after_idx, prev_idx, next_idx,
            occur_source_idx, first_exc_idx>>
history == <<run, last_segments, last_jsonl>>
vars == <<files, params, globals, locals, printed, pc, history>>

\* the names of a fresh interpreter: nothing is bound yet
FreshMemory ==
    /\ all_lines = <<>> /\ non_date_indices = <<>> /\ blocks = <<>>
    /\ segments_info = <<>> /\ segments_indices = <<>>
    /\ it = 0 /\ seg_no = 0 /\ s = 0 - 1 /\ e = 0 - 1
    /\ before_idx = <<>> /\ after_idx = <<>>
    /\ prev_idx = None /\ next_idx = None
    /\ occur_source_idx = None /\ first_exc_idx = None
    /\ printed = None
    /\ pc = "start"

Init ==
    /\ input_file \in Files
    /\ output_file = <<>> /\ jsonl_file = <<>>
    /\ date_prefix \in Prefixes
    /\ ctx_before \in 0..MaxCtx
    /\ ctx_after \in 0..MaxCtx
    /\ add_divider \in BOOLEAN
    /\ FreshMemory
    /\ run = 1 /\ last_segments = <<>> /\ last_jsonl = <<>>

\* lines 103-110: read the file, find the non-date lines, merge them into blocks
ReadInput ==
    /\ pc = "start"
    /\ all_lines' = input_file
    /\ non_date_indices' = PySort(NonDateIndices(input_file, date_prefix))
    /\ blocks' = group_contiguous(NonDateIndices(input_file, date_prefix))
    /\ pc' = "classified"
    /\ UNCHANGED <<files, params, segments_info, segments_indices, locals,
                   printed, history>>

\* lines 113-116: empty result lists, both output files opened for writing
OpenOutputs ==
    /\ pc = "classified"
    /\ segments_info' = <<>>
    /\ segments_indices' = <<>>
    /\ output_file' = OpenForWrite(output_file)
    /\ jsonl_file' = OpenForWrite(jsonl_file)
    /\ pc' = "loop"
    /\ UNCHANGED <<input_file, params, all_lines, non_date_indices, blocks,
                   locals, printed, history>>

\* lines 117-162: one iteration of the loop over blocks
ProcessSegment ==
    /\ pc = "loop"
    /\ it < Len(blocks)
    /\ LET item == Enumerate(blocks, 1)[it + 1]
           n == item[1]
           ss == item[2][1]
           ee == item[2][2]
           ctx == collect_context_indices(all_lines, ss, ee, date_prefix,
                                          ctx_before, ctx_after)
           p == nearest_prev_date_line(all_lines, ss, date_prefix)
           nx == nearest_next_date_line(all_lines, ee, date_prefix)
           src == IF p # None THEN p ELSE nx
           f == first_non_date_in_range(all_lines, ss, ee, date_prefix)
           flat == ctx[1] \o PyRange(ss, ee) \o ctx[2]
           \* an index outside the list raises IndexError
           ok == /\ src # None => PyIndexOk(all_lines, src[1])
                 /\ f # None => PyIndexOk(all_lines, f[1])
                 /\ \A k \in 1..Len(flat) : PyIndexOk(all_lines, flat[k])
           occur_source_line ==
               IF src # None THEN Some(rstrip_nl(PyAt(all_lines, src[1]))) ELSE None
           occur_time ==
               IF Truthy(occur_source_line)
               THEN extract_timestamp(occur_source_line[1]) ELSE None
           exception_first_line ==
               IF f # None THEN Some(rstrip_nl(PyAt(all_lines, f[1]))) ELSE None
           exception_first_line_prefix ==
               IF Truthy(exception_first_line)
               THEN prefix_before_colon(exception_first_line[1]) ELSE None
           obj == [segment_no |-> n,
                   context_before |-> StrippedLines(all_lines, ctx[1]),
                   context_after |-> StrippedLines(all_lines, ctx[2]),
                   occur_time |-> occur_time,
                   occur_time_source |-> occur_source_line,
                   exception_first_line |-> exception_first_line,
                   exception_first_line_prefix_before_colon |-> exception_first_line_prefix,
                   exception_lines |-> non_date_lines_in_range(all_lines, ss, ee, date_prefix),
                   span_indices |-> <<ss, ee>>]
       IN  /\ it' = it + 1
           /\ seg_no' = n /\ s' = ss /\ e' = ee
           /\ before_idx' = ctx[1] /\ after_idx' = ctx[2]
           /\ prev_idx' = p /\ next_idx' = nx
           /\ occur_source_idx' = src
           /\ IF ok
              THEN /\ first_exc_idx' = f
                   /\ segments_info' = Append(segments_info, obj)
                   /\ jsonl_file' = Append(jsonl_file, obj)
                   /\ segments_indices' = Append(segments_indices, flat)
                   /\ output_file' = output_file \o WriteSegment(add_divider, n, all_lines, flat)
                   /\ pc' = "loop"
              ELSE /\ pc' = "error"
                   /\ UNCHANGED <<first_exc_idx, segments_info, jsonl_file,
                                  segments_indices, output_file>>
    /\ UNCHANGED <<input_file, params, all_lines, non_date_indices, blocks,
                   printed, history>>

\* lines 164-167: the loop is over, the summary is printed
PrintSummary ==
    /\ pc = "loop"
    /\ it = Len(blocks)
    /\ printed' = Some(<<Len(segments_info), ctx_before, ctx_after>>)
    /\ pc' = "done"
    /\ UNCHANGED <<files, params, globals, locals, history>>

\* the script is executed again: a fresh interpreter, the files as they were left
Rerun ==
    /\ pc = "done"
    /\ run < MaxRuns
    /\ run' = run + 1
    /\ last_segments' = segments_info
    /\ last_jsonl' = jsonl_file
    /\ all_lines' = <<>> /\ non_date_indices' = <<>> /\ blocks' = <<>>
    /\ segments_info' = <<>> /\ segments_indices' = <<>>
    /\ it' = 0 /\ seg_no' = 0 /\ s' = 0 - 1 /\ e' = 0 - 1
    /\ before_idx' = <<>> /\ after_idx' = <<>>
    /\ prev_idx' = None /\ next_idx' = None
    /\ occur_source_idx' = None /\ first_exc_idx' = None
    /\ printed' = None
    /\ pc' = "start"
    /\ UNCHANGED <<files, params>>

Next == ReadInput \/ OpenOutputs \/ ProcessSegment \/ PrintSummary

Spec == Init /\ [][Next]_vars

NextTwice == Next \/ Rerun

\* the script as configured at lines 9 and 12, for every file and context bounds
InitConfigured ==
    /\ Init
    /\ date_prefix = DatePrefix
    /\ add_divider = TRUE

SpecTwice == InitConfigured /\ [][NextTwice]_vars

\* ------------------------------------------------- vocabulary of the claims
Positions == 0..(Len(all_lines) - 1)
IsExpected(i) == is_date_line(PyAt(all_lines, i), date_prefix)
ExpectedBelow(p) == {i \in Positions : i < p /\ IsExpected(i)}
ExpectedAbove(p) == {i \in Positions : i > p /\ IsExpected(i)}
SetMax(S) == CHOOSE x \in S : \A y \in S : y <= x
SetMin(S) == CHOOSE x \in S : \A y \in S : x <= y
Min(a, b) == IF a <= b THEN a ELSE b
Ascending(q) == \A k \in 1..(Len(q) - 1) : q[k] < q[k + 1]
Range(q) == {q[k] : k \in 1..Len(q)}

\* the n members of S nearest to the span, on the side S lies on
NearestBelow(S, n) == {i \in S : Cardinality({j \in S : j > i}) < n}
NearestAbove(S, n) == {i \in S : Cardinality({j \in S : j < i}) < n}

RECURSIVE AscendingList(_)
AscendingList(S) ==
    IF S = {} THEN <<>> ELSE <<SetMin(S)>> \o AscendingList(S \ {SetMin(S)})

RECURSIVE Flatten(_)
Flatten(qq) == IF qq = <<>> THEN <<>> ELSE Head(qq) \o Flatten(Tail(qq))

\* an iteration of the loop has completed; s, e and the other names hold its values
SegmentDone == pc \in {"loop", "done"} /\ it >= 1

\* first positions of the maximal runs of non-expected lines
RunStarts == {i \in Positions : ~IsExpected(i) /\ (i = 0 \/ IsExpected(i - 1))}

FileAllAnomalous ==
    /\ input_file # <<>>
    /\ \A k \in 1..Len(input_file) : ~is_date_line(input_file[k], date_prefix)

\* ------------------------------------------------------------ claims

\* C1: the spans of group_contiguous cover exactly the non-expected positions,
\* each has start <= end, they are strictly ascending, and consecutive spans
\* are at least 2 apart (neither overlapping nor touching).
C1_SpanCoverage ==
    pc # "start" =>
        /\ UNION {blocks[k][1]..blocks[k][2] : k \in 1..Len(blocks)}
               = {i \in Positions : ~IsExpected(i)}
        /\ \A k \in 1..Len(blocks) : blocks[k][1] <= blocks[k][2]
        /\ \A k \in 1..(Len(blocks) - 1) :
               /\ blocks[k][1] < blocks[k + 1][1]
               /\ blocks[k + 1][1] - blocks[k][2] >= 2

C1_Witness ==
    /\ pc = "done"
    /\ Len(blocks) >= 2
    /\ \E k \in 1..Len(blocks) : blocks[k][1] < blocks[k][2]

\* C2: context_before is exactly the min(n_before, available) expected
\* positions nearest below s in ascending order, context_after the
\* min(n_after, available) expected positions nearest above e in ascending
\* order; non-expected lines on the way are skipped and not counted.
C2_ContextNearestExpected ==
    SegmentDone =>
        /\ Ascending(before_idx)
        /\ Range(before_idx) = NearestBelow(ExpectedBelow(s), ctx_before)
        /\ Len(before_idx) = Min(ctx_before, Cardinality(ExpectedBelow(s)))
        /\ Ascending(after_idx)
        /\ Range(after_idx) = NearestAbove(ExpectedAbove(e), ctx_after)
        /\ Len(after_idx) = Min(ctx_after, Cardinality(ExpectedAbove(e)))

\* a non-expected line of another span lies between the collected context lines
C2_Witness ==
    /\ SegmentDone
    /\ Len(before_idx) = 2
    /\ \E j \in Positions : before_idx[1] < j /\ j < before_idx[2] /\ ~IsExpected(j)
    /\ after_idx = <<>>

\* C3: in every segment the context lists are no longer than ctx_before and
\* ctx_after, and have exactly that length when that many expected lines
\* exist on that side of the span.
C3_ContextBound ==
    \A k \in 1..Len(segments_info) :
        LET g == segments_info[k]
            below == ExpectedBelow(g.span_indices[1])
            above == ExpectedAbove(g.span_indices[2])
        IN  /\ Len(g.context_before) <= ctx_before
            /\ Len(g.context_after) <= ctx_after
            /\ Cardinality(below) >= ctx_before => Len(g.context_before) = ctx_before
            /\ Cardinality(above) >= ctx_after => Len(g.context_after) = ctx_after

\* one side is cut by the bound, the other by the end of the file
C3_Witness ==
    \E k \in 1..Len(segments_info) :
        LET g == segments_info[k]
        IN  /\ ctx_after >= 1
            /\ Len(g.context_after) = ctx_after
            /\ Cardinality(ExpectedAbove(g.span_indices[2])) > ctx_after
            /\ Len(g.context_before) < ctx_before

\* C4: the occurrence source is the nearest expected line below s if there is
\* one, whatever ctx_before is; otherwise the nearest expected line above e;
\* otherwise source and timestamp are both null; no error is raised.
C4_OccurrenceSource ==
    /\ pc # "error"
    /\ SegmentDone =>
        LET below == ExpectedBelow(s)
            above == ExpectedAbove(e)
            g == segments_info[it]
        IN  /\ occur_source_idx =
                   IF below # {} THEN Some(SetMax(below))
                   ELSE IF above # {} THEN Some(SetMin(above))
                   ELSE None
            /\ g.occur_time_source =
                   IF occur_source_idx = None THEN None
                   ELSE Some(rstrip_nl(PyAt(all_lines, occur_source_idx[1])))
            /\ (below = {} /\ above = {}) =>
                   (g.occur_time_source = None /\ g.occur_time = None)

\* expected lines on both sides, and no context is asked for before the span
C4_Witness ==
    /\ SegmentDone
    /\ ctx_before = 0
    /\ ExpectedBelow(s) # {}
    /\ ExpectedAbove(e) # {}
    /\ occur_source_idx = Some(s - 1)

\* C5: one segment per span, in ascending span order, numbered 1..K with K
\* the number of spans; no lines, or only expected lines, give K = 0; no
\* error is raised.
C5_Numbering ==
    /\ pc # "error"
    /\ pc \in {"loop", "done"} =>
        /\ Len(segments_info) = it
        /\ \A k \in 1..Len(segments_info) :
               /\ segments_info[k].segment_no = k
               /\ segments_info[k].span_indices = blocks[k]
        /\ \A k \in 1..(Len(segments_info) - 1) :
               segments_info[k].span_indices[1] < segments_info[k + 1].span_indices[1]
    /\ pc = "done" =>
        /\ Len(segments_info) = Cardinality(RunStarts)
        /\ Len(jsonl_file) = Cardinality(RunStarts)
        /\ {segments_info[k].span_indices[1] : k \in 1..Len(segments_info)} = RunStarts

C5_Witness ==
    /\ pc = "done"
    /\ Len(segments_info) = 2
    /\ segments_info[2].segment_no = 2

\* C6 as stated: without dividers the text output is the union of all
\* segments' positions, deduplicated and sorted ascending, each position
\* written once.
C6_Deduplicated ==
    (pc = "done" /\ ~add_divider) =>
        LET union == UNION {Range(segments_indices[k]) : k \in 1..Len(segments_indices)}
            order == AscendingList(union)
        IN  output_file = [k \in 1..Len(order) |-> PyAt(all_lines, order[k])]

\* C6 amended: without dividers the text output is the concatenation, in
\* segment order, of every segment's flattened positions, with no marker
\* lines; a position in the windows of several segments is written once for
\* each of them.
C6_ConcatenatedPerSegment ==
    (pc = "done" /\ ~add_divider) =>
        LET order == Flatten(segments_indices)
        IN  /\ Len(segments_indices) = Len(segments_info)
            /\ \A k \in 1..Len(segments_indices) :
                   LET g == segments_info[k].span_indices
                       idxs == segments_indices[k]
                   IN  Range(idxs) =
                           (g[1]..g[2])
                           \cup NearestBelow(ExpectedBelow(g[1]), ctx_before)
                           \cup NearestAbove(ExpectedAbove(g[2]), ctx_after)
            /\ output_file = [k \in 1..Len(order) |-> PyAt(all_lines, order[k])]

\* the context windows of two segments share a position
C6_Witness ==
    /\ pc = "done"
    /\ ~add_divider
    /\ \E k, l \in 1..Len(segments_indices) :
           k < l /\ Range(segments_indices[k]) \cap Range(segments_indices[l]) # {}

\* C7: a non-empty file without any expected line gives, without error, one
\* segment with span [0, n-1], empty contexts, null occurrence source and
\* timestamp, and the exception fields filled from the span.
C7_WholeFileAnomalous ==
    FileAllAnomalous =>
        /\ pc # "error"
        /\ pc = "done" =>
            /\ Len(segments_info) = 1
            /\ LET g == segments_info[1]
               IN  /\ g.span_indices = <<0, Len(input_file) - 1>>
                   /\ g.context_before = <<>>
                   /\ g.context_after = <<>>
                   /\ g.occur_time = None
                   /\ g.occur_time_source = None
                   /\ g.exception_first_line = Some(rstrip_nl(input_file[1]))
                   /\ g.exception_lines =
                          [k \in 1..Len(input_file) |-> rstrip_nl(input_file[k])]

C7_Witness ==
    /\ FileAllAnomalous
    /\ Len(input_file) >= 2
    /\ pc = "done"
    /\ Len(segments_info) = 1

\* C8: an execution leaves the line sequence unchanged, and a second
\* execution on the same input and configuration ends with the same segment
\* list, in memory and in the JSONL file, as the one before it.
C8_Idempotent ==
    [][/\ input_file' = input_file
       /\ (pc' = "done" /\ run' >= 2) =>
              (segments_info' = last_segments' /\ jsonl_file' = last_jsonl')]_vars

C8_Witness ==
    /\ run = 2
    /\ pc = "done"
    /\ Len(segments_info) >= 2
    /\ jsonl_file = last_jsonl

\* C9: the first exception line is the line at position s, and
\* exception_lines holds exactly the e - s + 1 lines at s..e in ascending
\* order, none of them expected.
C9_ExceptionLines ==
    SegmentDone =>
        LET g == segments_info[it]
        IN  /\ first_exc_idx = Some(s)
            /\ g.exception_first_line = Some(rstrip_nl(PyAt(all_lines, s)))
            /\ Len(g.exception_lines) = e - s + 1
            /\ g.exception_lines =
                   [k \in 1..(e - s + 1) |-> rstrip_nl(PyAt(all_lines, s + k - 1))]
            /\ \A i \in s..e : ~IsExpected(i)

C9_Witness ==
    /\ SegmentDone
    /\ e > s
    /\ Len(segments_info[it].exception_lines) >= 2

\* C10: the occurrence source is the line next to the span: position s - 1
\* when s > 0, otherwise e + 1 when e + 1 < n, otherwise null; so it is the
\* last element of a non-empty context_before and, when s = 0, the first
\* element of a non-empty context_after.
C10_SourceAdjacent ==
    SegmentDone =>
        /\ occur_source_idx =
               IF s > 0 THEN Some(s - 1)
               ELSE IF e + 1 < Len(all_lines) THEN Some(e + 1)
               ELSE None
        /\ before_idx # <<>> => occur_source_idx = Some(before_idx[Len(before_idx)])
        /\ (s = 0 /\ after_idx # <<>>) => occur_source_idx = Some(after_idx[1])

C10_Witness ==
    /\ SegmentDone
    /\ s = 0
    /\ after_idx # <<>>
    /\ occur_source_idx = Some(after_idx[1])
    /\ Len(blocks) >= 2

====
